---- MODULE Spec2Model ----
(***************************************************************************)
(* Model of app.py: the two attendance-verification handlers               *)
(* handle_verify_location and handle_verify_face, run by concurrent        *)
(* request threads that share one working directory.                       *)
(*                                                                         *)
(* handle_verify_location touches no shared state and is one action.       *)
(* handle_verify_face is split at its file-system operations (exists,      *)
(* open/write, the verifier's read, exists, remove); the local computation *)
(* between two of them belongs to the action of the operation before it.   *)
(*                                                                         *)
(* The request body is a JSON object; a field is null/absent, a string or  *)
(* a number.  class_id is a string when present.                           *)
(***************************************************************************)
EXTENDS Integers, Sequences, FiniteSets, TLC

\* ---------------------------------------------------------------- bounds
NumRequests == 2        \* concurrent requests
MaxPayloadLen == 5      \* characters of the 'image' string
Margin == 1             \* distances examined on each side of the radius

Requests == 1..NumRequests

\* ------------------------------------------------------- configuration
LOCATION_RADIUS_METERS == 38061
CLASS_LOCATIONS == {"CS101"}
REFERENCE_IMG_PATH == <<"reference", 0>>

\* ----------------------------------------------------------- JSON values
Null == [t |-> "null", s |-> "", n |-> 0]
Str(x) == [t |-> "str", s |-> x, n |-> 0]
Num(k) == [t |-> "num", s |-> "", n |-> k]

\* Python truthiness of a JSON value (None, "" and 0 are falsy).
Truthy(v) == v.t # "null" /\ (v.t = "str" => v.s # "") /\ (v.t = "num" => v.n # 0)

\* all([class_id, user_lat, user_lon])
AllAny(vs) == \E i \in 1..Len(vs) : Truthy(vs[i])
All(vs) == \A i \in 1..Len(vs) : Truthy(vs[i])

\* Strings float() accepts, among the strings the model sends.
FloatLiterals == {"0", "16.7953091"}
\* float(v) returns (TRUE) or raises ValueError (FALSE).
FloatParses(v) == v.t = "num" \/ (v.t = "str" /\ v.s \in FloatLiterals)

\* distance <= LOCATION_RADIUS_METERS
WithinRadiusStrict(distance) == distance < LOCATION_RADIUS_METERS
WithinRadius(distance) == distance <= LOCATION_RADIUS_METERS

\* Values haversine(...) returns, in metres.
Distances == {0} \cup ((LOCATION_RADIUS_METERS - Margin)..(LOCATION_RADIUS_METERS + Margin))

ClassIdValues == {Null, Str(""), Str("CS101"), Str("PHY203")}
CoordValues == {Null, Str(""), Str("0"), Str("16.7953091"), Str("abc"), Num(0), Num(17)}

\* --------------------------------------------------------- image payload
\* A character of the payload: "," the separator, "A" a character of the
\* base64 alphabet, "=" the pad, "!" any other character.
Chars == {",", "A", "=", "!"}

RECURSIVE SeqsUpTo(_)
SeqsUpTo(n) == IF n = 0 THEN {<<>>}
               ELSE LET S == SeqsUpTo(n - 1)
                    IN S \cup {Append(s, c) : s \in {x \in S : Len(x) = n - 1}, c \in Chars}

\* data.get('image'): absent, or a string.
Absent == <<"absent">>
ImageValues == {Absent} \cup SeqsUpTo(MaxPayloadLen)

\* image_data_url.split(",", 1): the index of the first comma, 0 if none.
RECURSIVE FirstComma(_, _)
FirstComma(s, i) == IF i > Len(s) THEN 0
                    ELSE IF s[i] = "," THEN i ELSE FirstComma(s, i + 1)

\* binascii.a2b_base64 in its default, non-strict mode: characters outside
\* the alphabet are skipped, a completed pad sequence ends the input, and a
\* partial quad at the end raises.  TRUE when it returns, FALSE when it raises.
RECURSIVE A2B(_, _, _, _)
A2B(s, i, quad_pos, pads) ==
  IF i > Len(s) THEN quad_pos = 0
  ELSE IF s[i] = "=" THEN
         IF quad_pos >= 2 /\ quad_pos + pads + 1 >= 4 THEN TRUE
         ELSE A2B(s, i + 1, quad_pos, pads + 1)
  ELSE IF s[i] = "A" THEN A2B(s, i + 1, (quad_pos + 1) % 4, 0)
  ELSE A2B(s, i + 1, quad_pos, pads)

\* The form of a base64 text (RFC 4648): whole quads of alphabet characters,
\* the last one closed by at most two pads.
WellFormedB64(encoded) ==
  LET n == Len(encoded)
  IN /\ n % 4 = 0
     /\ \A i \in 1..n :
          \/ encoded[i] = "A"
          \/ encoded[i] = "=" /\ i >= n - 1 /\ (i = n - 1 => encoded[n] = "=")

b64decode(encoded) == A2B(encoded, 1, 0, 0)

\* Lines 247-248: TRUE when split and decode both return.
DecodeOk(image_data_url) ==
  LET k == FirstComma(image_data_url, 1)
  IN k # 0 /\ b64decode(SubSeq(image_data_url, k + 1, Len(image_data_url)))

\* What the handler can tell about a payload, computed as lines 239 and
\* 247-248 compute it.  valid_b64 is the payload's form, not the decoder's
\* verdict: a comma, then only alphabet characters and well-placed padding.
ImageFacts(image_data_url) ==
  LET k == IF image_data_url = Absent THEN 0 ELSE FirstComma(image_data_url, 1)
  IN [truthy    |-> image_data_url # Absent /\ image_data_url # <<>>,
      comma     |-> k # 0,
      valid_b64 |-> k # 0 /\ WellFormedB64(SubSeq(image_data_url, k + 1, Len(image_data_url))),
      decodes   |-> image_data_url # Absent /\ DecodeOk(image_data_url)]

ImageInputs == {ImageFacts(p) : p \in ImageValues}
NoImage == [truthy |-> FALSE, comma |-> FALSE, valid_b64 |-> FALSE, decodes |-> FALSE]

\* ------------------------------------------------------------ file names
NoPath == <<"", 0>>
Names == {<<"uuid", i>> : i \in 1..NumRequests}

\* uuid.uuid4(): a name no other request has drawn.
uuid4Constant(used) == {<<"uuid", 1>>}
uuid4(used) == Names \ used

\* ------------------------------------------------------------- responses
Resp(status, code) == [status |-> status, code |-> code]
NoResp == Resp("none", 0)
Fault == Resp("fault", 500)
NoDistance == -1

VARIABLES
  loc,    \* handle_verify_location: the last request and its response
  h,      \* handle_verify_face: each request's locals and position
  disk    \* the files in the working directory

vars == <<loc, h, disk>>

IdleLoc == [class_id |-> Null, user_lat |-> Null, user_lon |-> Null,
            looked_up |-> FALSE, distance |-> NoDistance, response |-> NoResp]

IdleFace == [pc |-> "idle", image |-> NoImage, captured_img_path |-> NoPath,
             verify_calls |-> 0, verified |-> "none",
             written |-> {}, removed |-> {},
             pending |-> NoResp, response |-> NoResp]

Init ==
  /\ loc = IdleLoc
  /\ h = [r \in Requests |-> IdleFace]
  /\ disk \in {{}, {REFERENCE_IMG_PATH}}

\* -------------------------------------------------- handle_verify_location
LocationResult(class_id, user_lat, user_lon, d) ==
  LET req == [class_id |-> class_id, user_lat |-> user_lat, user_lon |-> user_lon]
  IN IF ~All(<<class_id, user_lat, user_lon>>)
       THEN req @@ [looked_up |-> FALSE, distance |-> NoDistance,
                    response |-> Resp("error", 400)]
     ELSE IF class_id.s \notin CLASS_LOCATIONS
       THEN req @@ [looked_up |-> TRUE, distance |-> NoDistance,
                    response |-> Resp("error", 404)]
     ELSE IF ~(FloatParses(user_lat) /\ FloatParses(user_lon))
       THEN req @@ [looked_up |-> TRUE, distance |-> NoDistance, response |-> Fault]
     ELSE IF WithinRadius(d)
       THEN req @@ [looked_up |-> TRUE, distance |-> d, response |-> Resp("success", 200)]
     ELSE req @@ [looked_up |-> TRUE, distance |-> d, response |-> Resp("failure", 200)]

handle_verify_location ==
  /\ \E class_id \in ClassIdValues, user_lat \in CoordValues, user_lon \in CoordValues,
        d \in Distances :
        loc' = LocationResult(class_id, user_lat, user_lon, d)
  /\ UNCHANGED <<h, disk>>

NextLocation == handle_verify_location
SpecLocation == Init /\ [][NextLocation]_vars

\* ------------------------------------------------------ handle_verify_face
Set(r, rec) == h' = [h EXCEPT ![r] = rec]
UsedNames == {h[r].captured_img_path : r \in Requests} \ {NoPath}

\* Lines 236-249: the two validations, the decode and the file name.
FaceBegin(r) ==
  /\ h[r].pc = "idle"
  /\ \E image \in ImageInputs :
       IF ~image.truthy
         THEN Set(r, [h[r] EXCEPT !.pc = "done", !.image = image,
                                  !.response = Resp("error", 400)])
       ELSE IF REFERENCE_IMG_PATH \notin disk
         THEN Set(r, [h[r] EXCEPT !.pc = "done", !.image = image,
                                  !.response = Resp("error", 500)])
       ELSE IF ~image.decodes
         THEN Set(r, [h[r] EXCEPT !.pc = "finally", !.image = image,
                                  !.pending = Resp("error", 500)])
       ELSE \E name \in uuid4(UsedNames) :
              Set(r, [h[r] EXCEPT !.pc = "write", !.image = image,
                                  !.captured_img_path = name])
  /\ UNCHANGED <<loc, disk>>

\* Lines 250-251: open(..., "wb") and write.  open may raise before the file
\* exists, write may raise after it does.
WriteFile(r) ==
  /\ h[r].pc = "write"
  /\ \/ /\ disk' = disk \cup {h[r].captured_img_path}
        /\ Set(r, [h[r] EXCEPT !.pc = "verify", !.written = @ \cup {h[r].captured_img_path}])
     \/ /\ disk' = disk \cup {h[r].captured_img_path}
        /\ Set(r, [h[r] EXCEPT !.pc = "finally", !.pending = Resp("error", 500),
                                !.written = @ \cup {h[r].captured_img_path}])
     \/ /\ disk' = disk
        /\ Set(r, [h[r] EXCEPT !.pc = "finally", !.pending = Resp("error", 500)])
  /\ UNCHANGED loc

\* Line 253: DeepFace.verify is entered; it blocks the request.
VerifyCall(r) ==
  /\ h[r].pc = "verify"
  /\ Set(r, [h[r] EXCEPT !.pc = "verifying", !.verify_calls = @ + 1])
  /\ UNCHANGED <<loc, disk>>

\* Lines 253-267: the verifier returns a verdict or raises; the return value
\* is held while the finally block runs.
VerifyOutcome(verdict) ==
  CASE verdict = "true"  -> Resp("success", 200)
    [] verdict = "false" -> Resp("failure", 200)
    [] OTHER             -> Resp("error", 500)

VerifyReturn(r) ==
  /\ h[r].pc = "verifying"
  /\ \E verdict \in IF h[r].captured_img_path \in disk /\ REFERENCE_IMG_PATH \in disk
                      THEN {"true", "false", "raised"} ELSE {"raised"} :
       Set(r, [h[r] EXCEPT !.pc = "finally", !.verified = verdict,
                           !.pending = VerifyOutcome(verdict)])
  /\ UNCHANGED <<loc, disk>>

FinallyNoCleanup(r) ==
  /\ h[r].pc = "finally"
  /\ Set(r, [h[r] EXCEPT !.pc = "done", !.response = h[r].pending])
  /\ UNCHANGED <<loc, disk>>

\* Line 269: os.path.exists(captured_img_path); "" never exists.
FinallyExists(r) ==
  /\ h[r].pc = "finally"
  /\ IF h[r].captured_img_path \in disk
       THEN Set(r, [h[r] EXCEPT !.pc = "remove"])
       ELSE Set(r, [h[r] EXCEPT !.pc = "done", !.response = h[r].pending])
  /\ UNCHANGED <<loc, disk>>

\* Line 270: os.remove(captured_img_path).  It deletes the file and the held
\* value is returned, or it raises and the exception leaves the handler in
\* place of the held value.
FinallyRemove(r) ==
  /\ h[r].pc = "remove"
  /\ \/ /\ h[r].captured_img_path \in disk
        /\ disk' = disk \ {h[r].captured_img_path}
        /\ Set(r, [h[r] EXCEPT !.pc = "done", !.response = h[r].pending,
                                !.removed = @ \cup {h[r].captured_img_path}])
     \/ /\ disk' = disk
        /\ Set(r, [h[r] EXCEPT !.pc = "fault", !.response = Fault])
  /\ UNCHANGED loc

handle_verify_face(r) ==
  \/ FaceBegin(r)
  \/ WriteFile(r)
  \/ VerifyCall(r)
  \/ VerifyReturn(r)
  \/ FinallyExists(r)
  \/ FinallyRemove(r)

NextFace == \E r \in Requests : handle_verify_face(r)
SpecFace == Init /\ [][NextFace]_vars

\* =================================================================== claims
Ended(r) == h[r].pc \in {"done", "fault"}
Answered == loc.response # NoResp
AbsentOrEmpty(v) == v.t = "null" \/ (v.t = "str" /\ v.s = "")
Present(v) == ~AbsentOrEmpty(v)
Registered == loc.class_id.t = "str" /\ loc.class_id.s \in CLASS_LOCATIONS
Malformed(image) == image.truthy /\ (~image.comma \/ ~image.valid_b64)

C2_Claim ==
  \A r \in Requests :
    /\ h[r].response.status = "success" => h[r].verify_calls = 1 /\ h[r].verified = "true"
    /\ h[r].response.status = "failure" => h[r].verify_calls = 1 /\ h[r].verified = "false"
    /\ h[r].verify_calls <= 1
    /\ h[r].verify_calls >= 1 =>
         /\ h[r].image.truthy /\ h[r].image.decodes
         /\ REFERENCE_IMG_PATH \in disk
         /\ h[r].written = {h[r].captured_img_path}
    /\ Ended(r) /\ h[r].verified = "raised" => h[r].response = Resp("error", 500)

\* C3: once the fields are accepted and the class is registered, a computed
\* distance decides the result: success exactly when it is at most the
\* radius (equality included), failure exactly when it is greater, both with
\* HTTP 200.
C3_InclusiveRadius ==
  Answered /\ Registered /\ Truthy(loc.user_lat) /\ Truthy(loc.user_lon) =>
    /\ loc.response.status \in {"success", "failure"} <=> loc.distance # NoDistance
    /\ loc.distance # NoDistance =>
         /\ loc.response.status = "success" <=> loc.distance <= LOCATION_RADIUS_METERS
         /\ loc.response.status = "failure" <=> loc.distance > LOCATION_RADIUS_METERS
         /\ loc.response.code = 200

C3_Witness ==
  /\ Registered
  /\ loc.distance = LOCATION_RADIUS_METERS
  /\ loc.response = Resp("success", 200)

\* C4: a request with class_id, latitude or longitude absent or empty gets
\* error 400, before the registry is consulted and with no distance computed.
C4_MissingFieldIs400 ==
  Answered /\ (\E v \in {loc.class_id, loc.user_lat, loc.user_lon} : AbsentOrEmpty(v)) =>
    /\ loc.response = Resp("error", 400)
    /\ ~loc.looked_up
    /\ loc.distance = NoDistance

C4_Witness ==
  /\ loc.class_id = Str("PHY203")
  /\ AbsentOrEmpty(loc.user_lat)
  /\ Present(loc.user_lon)
  /\ loc.response = Resp("error", 400)

\* C5: a request whose class id is not in the registry gets error, never
\* success or failure, with no distance computed, and HTTP 404 when all three
\* fields are present.
C5_Claim ==
  Answered /\ ~Registered =>
    /\ loc.response.status = "error"
    /\ loc.distance = NoDistance
    /\ Present(loc.class_id) /\ Present(loc.user_lat) /\ Present(loc.user_lon) =>
         loc.response.code = 404

\* C6: a request whose payload has no comma, or is not base64 after it, never
\* reaches the verifier, and ends with error 500 and no temporary file.
C6_Claim ==
  \A r \in Requests :
    Malformed(h[r].image) =>
      /\ h[r].verify_calls = 0
      /\ Ended(r) => h[r].response = Resp("error", 500) /\ h[r].written \cap disk = {}

\* C7: every answered request carries one of the three statuses; no handler
\* ends with an unhandled exception.
C7_Claim ==
  Answered => loc.response.status \in {"success", "failure", "error"}

\* C8: concurrent requests keep to their own temporary files: a request
\* writes and deletes only the file it named, no two requests share a file,
\* and the file handed to the verifier exists for as long as the call runs.
C8_OwnFileOnly ==
  /\ \A r \in Requests :
       /\ h[r].written \subseteq {h[r].captured_img_path}
       /\ h[r].removed \subseteq h[r].written
       /\ h[r].pc = "verifying" => h[r].captured_img_path \in disk
  /\ \A r, s \in Requests :
       r # s => (h[r].written \cup h[r].removed) \cap h[s].written = {}

C8_Witness ==
  \E r, s \in Requests :
    /\ r # s
    /\ h[r].pc = "verifying"
    /\ h[s].removed # {}
    /\ h[s].pc = "done"

\* C9: a failing deletion is not surfaced: the request still ends with the
\* result it had decided.
C9_Claim ==
  \A r \in Requests :
    Ended(r) /\ h[r].pending # NoResp => h[r].response = h[r].pending

\* C10: a request with all three fields present, a numeric 0 included, is
\* never answered with the 400 for missing fields.
C10_Claim ==
  Answered /\ Present(loc.class_id) /\ Present(loc.user_lat) /\ Present(loc.user_lon) =>
    loc.response.code # 400

====
